---------------------------- MODULE Spec2Model ----------------------------
(***************************************************************************)
(* A model of wiring_guide.py, the SpiNNer wiring-guide generator.  The    *)
(* script builds a hexagonal torus of boards, relabels it through a chain  *)
(* of coordinate transforms down to cabinet/rack/slot positions, derives   *)
(* loop lengths, wire statistics and wiring patterns from the result and   *)
(* then prints the report.                                                 *)
(*                                                                         *)
(* A mapping is what the script passes around: a list of (board, coord)    *)
(* tuples, here a sequence of pairs.  A board is an object identity, here  *)
(* the index at which create_torus made it.                                *)
(***************************************************************************)
EXTENDS Integers, Sequences, FiniteSets, TLC

\* ------------------------------------------------------------------ bounds
MaxDim == 2
MaxFolds == 2
MaxCabinets == 2
MaxSpare == 1
MaxLen == 4
MaxWires == 3
MaxBins == 3
MaxPacketLoop == 3
MaxColours == 301
FloatBits == 7

\* -------------------------------------------------------------- directions
NORTH == "North"
NORTH_EAST == "North East"
EAST == "East"
SOUTH == "South"
SOUTH_WEST == "South West"
WEST == "West"

Directions == {NORTH, NORTH_EAST, EAST, SOUTH, SOUTH_WEST, WEST}

\* The principal wiring directions, in the order the script walks them.
DIRECTION_COLOURS == <<NORTH, EAST, SOUTH_WEST>>

PrincipalDirections == {DIRECTION_COLOURS[i] : i \in DOMAIN DIRECTION_COLOURS}

opposite(direction) ==
  CASE direction = NORTH -> SOUTH
    [] direction = NORTH_EAST -> SOUTH_WEST
    [] direction = EAST -> WEST
    [] direction = SOUTH -> NORTH
    [] direction = SOUTH_WEST -> NORTH_EAST
    [] direction = WEST -> EAST

\* The hexagonal unit vector of a direction (three axes, x + y + z free).
direction_vector(direction) ==
  CASE direction = EAST -> <<1, 0, 0>>
    [] direction = WEST -> <<-1, 0, 0>>
    [] direction = NORTH -> <<0, 1, 0>>
    [] direction = SOUTH -> <<0, -1, 0>>
    [] direction = NORTH_EAST -> <<0, 0, -1>>
    [] direction = SOUTH_WEST -> <<0, 0, 1>>

\* ----------------------------------------------------------------- helpers
SetMax(S) == CHOOSE x \in S : \A y \in S : y <= x
SetMin(S) == CHOOSE x \in S : \A y \in S : x <= y

RECURSIVE SumSeq(_)
SumSeq(s) == IF s = <<>> THEN 0 ELSE Head(s) + SumSeq(Tail(s))

\* The boards and the coordinates of a list of (board, coord) tuples.
BoardsOf(boards) == {boards[i][1] : i \in DOMAIN boards}
CoordsOf(boards) == {boards[i][2] : i \in DOMAIN boards}

\* dict(boards): a later tuple of the same board replaces an earlier one.
dict(boards) ==
  [b \in BoardsOf(boards) |->
     boards[SetMax({i \in DOMAIN boards : boards[i][1] = b})][2]]

\* max over a coordinate axis, as max(x for (b, (x, y)) in boards).
MaxAxis(boards, axis) == SetMax({boards[i][2][axis] : i \in DOMAIN boards})

\* --------------------------------------------------------------- variables
VARIABLES
  params,                       \* the configuration the script imports
  pc,                           \* the statement of the script about to run
  error,                        \* the exception that ended the run, or "none"
  output,                       \* what the script has printed so far
  connection,                   \* board -> direction -> board: the wires
  torus, cart_torus, rect_torus, comp_torus,
  fold_spaced_torus, folded_torus, folded_spaced_torus,
  folded_cabinet_spaced_torus, cabinet_torus, phys_torus,
  loop, cur_board, loop_direction, loop_call, wiring_loop_length,
  cabinet_stats,
  pattern_iter, grouped_relative_wires, pattern2id, num_colours,
  cabinet_colours,              \* cabinet coordinate -> colour index
  colours,                      \* the palette of the last colouring diagram
  colouring,                    \* cabinet coordinate -> colour of its board
  lengths, num_bins, hist, bin_num, out_frequencies, freq_stats,
  packet_loop,                  \* the (entry direction, board) pairs recorded
  packet_direction,             \* the direction of the packet loop gathered
  packet_metric,                \* what generate_packet_loop returned
  wiring_instructions           \* what generate_wiring_instructions built

pipeline_vars ==
  <<torus, cart_torus, rect_torus, comp_torus, fold_spaced_torus,
    folded_torus, folded_spaced_torus, folded_cabinet_spaced_torus,
    cabinet_torus, phys_torus>>

loop_vars == <<loop, cur_board, loop_direction, loop_call, wiring_loop_length>>

pattern_vars ==
  <<pattern_iter, grouped_relative_wires, pattern2id, num_colours,
    cabinet_colours, colours, colouring>>

packet_vars == <<packet_loop, packet_direction, packet_metric>>

hist_vars == <<lengths, num_bins, hist, bin_num, out_frequencies, freq_stats>>

vars ==
  <<params, pc, error, output, connection, pipeline_vars, loop_vars,
    cabinet_stats, pattern_vars, hist_vars, packet_vars, wiring_instructions>>

\* The total number of boards of the configured torus.
board_count == 3 * params.width * params.height

\* ------------------------------------------------------ model.topology/board
\* The hexagonal coordinates of a width x height arrangement of threeboards,
\* in the order they are generated: board z of threeboard (x, y).
threeboard_coord(w, x, y, z) ==
  <<(x * 2) - y + (IF z >= 2 THEN 1 ELSE 0), x + y + (IF z >= 1 THEN 1 ELSE 0), 0>>

threeboards(w, h) ==
  [i \in 1..(3 * w * h) |->
     LET k == i - 1
         z == k % 3
         x == (k \div 3) % w
         y == k \div (3 * w)
     IN  threeboard_coord(w, x, y, z)]

\* Move a hexagonal coordinate one step and bring it back to the plane z = 0.
add_direction(coord, direction) ==
  LET v == direction_vector(direction)
      x == coord[1] + v[1]
      y == coord[2] + v[2]
      z == coord[3] + v[3]
  IN  <<x - z, y - z, 0>>

\* Whether two coordinates are the same place of a w x h torus: they differ
\* by whole threeboard columns (2, 1) * w and rows (-1, 1) * h.
same_place(a, b, w, h) ==
  LET dx == a[1] - b[1]
      dy == a[2] - b[2]
  IN  /\ (dx + dy) % (3 * w) = 0
      /\ ((2 * dy) - dx) % (3 * h) = 0

\* wrap_around: the board of the torus a coordinate falls on, among the
\* boards at the coordinates cs.
wrap_around(coord, cs, w, h) ==
  CHOOSE i \in DOMAIN cs : same_place(coord, cs[i], w, h)

\* create_torus: the boards with their coordinates, and the wires.
create_torus(w, h) ==
  LET cs == threeboards(w, h) IN [i \in DOMAIN cs |-> <<i, cs[i]>>]

create_connection(w, h) ==
  LET cs == threeboards(w, h)
  IN  [b \in DOMAIN cs |->
         [d \in Directions |-> wrap_around(add_direction(cs[b], d), cs, w, h)]]

follow_wire(board, direction) == connection[board][direction]

\* ---------------------------------------------------------- model.transforms
hex_to_cartesian_coord(coord) ==
  LET x == coord[1] - coord[3]
      y == coord[2] - coord[3]
  IN  <<x, (y * 2) - x>>

hex_to_cartesian(boards) ==
  [i \in DOMAIN boards |-> <<boards[i][1], hex_to_cartesian_coord(boards[i][2])>>]

rhombus_to_rect(boards) ==
  LET max_x == MaxAxis(boards, 1)
  IN  [i \in DOMAIN boards |->
         LET x == boards[i][2][1]
             y == boards[i][2][2]
         IN  <<boards[i][1], <<IF x < 0 THEN x + max_x + 1 ELSE x, y>>>>]

compress(boards, x_div, y_div) ==
  [i \in DOMAIN boards |->
     <<boards[i][1], <<boards[i][2][1] \div x_div, boards[i][2][2] \div y_div>>>>]

\* The width of one sheet when w positions are folded f times (rounded up).
fold_width(w, f) == (w + (f - 1)) \div f

space_folds(boards, folds) ==
  LET w == MaxAxis(boards, 1) + 1
      h == MaxAxis(boards, 2) + 1
  IN  [i \in DOMAIN boards |->
         LET x == boards[i][2][1]
             y == boards[i][2][2]
         IN  <<boards[i][1],
               <<x + (x \div fold_width(w, folds[1])),
                 y + (y \div fold_width(h, folds[2]))>>>>]

fold_interleave_dimension(x, w, f) ==
  LET fw == fold_width(w, f)
      sheet == x \div fw
      new_x == IF sheet % 2 = 1 THEN fw - (x % fw) - 1 ELSE x % fw
  IN  (new_x * f) + sheet

\* fold rejects fold counts that do not evenly divide the grid.
fold_valid(boards, folds) ==
  /\ (MaxAxis(boards, 1) + 1) % folds[1] = 0
  /\ (MaxAxis(boards, 2) + 1) % folds[2] = 0

\* What a transform that can fail hands back: its value, or the failure.
Returned(value) == [ok |-> TRUE, value |-> value]
Raised == [ok |-> FALSE, value |-> <<>>]

fold(boards, folds) ==
  LET w == MaxAxis(boards, 1) + 1
      h == MaxAxis(boards, 2) + 1
  IN  IF fold_valid(boards, folds)
      THEN Returned([i \in DOMAIN boards |->
             <<boards[i][1],
               <<fold_interleave_dimension(boards[i][2][1], w, folds[1]),
                 fold_interleave_dimension(boards[i][2][2], h, folds[2])>>>>])
      ELSE Raised

\* cabinetise rejects a grid the cabinets, racks and slots do not exactly hold.
cabinetise_valid(boards, n_cabinets, n_racks, n_slots) ==
  LET w == MaxAxis(boards, 1) + 1
      h == MaxAxis(boards, 2) + 1
  IN  /\ Len(boards) = n_cabinets * n_racks * n_slots
      /\ w % n_cabinets = 0
      /\ h % n_racks = 0
      /\ (w \div n_cabinets) * (h \div n_racks) = n_slots

cabinetise(boards, n_cabinets, n_racks, n_slots) ==
  LET cols_per_cabinet == (MaxAxis(boards, 1) + 1) \div n_cabinets
      rows_per_rack == (MaxAxis(boards, 2) + 1) \div n_racks
  IN  IF cabinetise_valid(boards, n_cabinets, n_racks, n_slots)
      THEN Returned([i \in DOMAIN boards |->
             LET x == boards[i][2][1]
                 y == boards[i][2][2]
             IN  <<boards[i][1],
                   <<x \div cols_per_cabinet,
                     y \div rows_per_rack,
                     ((x % cols_per_cabinet) * rows_per_rack) + (y % rows_per_rack)>>>>])
      ELSE Raised

\* model.cabinet / params_physical: the dimensions the positions are made of.
slot_width == 1
slot_spacing == 1
rack_height == 4
rack_spacing == 1
cabinet_width == 60
cabinet_spacing == 5

\* cabinet.System(...): the nested description handed to cabinet_to_physical.
cabinet_system ==
  [slot_pitch |-> slot_width + slot_spacing,
   rack_pitch |-> rack_height + rack_spacing,
   cabinet_pitch |-> cabinet_width + cabinet_spacing]

\* The position of a slot: cabinets side by side, racks stacked, slots in a row.
get_position(system, coord) ==
  <<(coord[1] * system.cabinet_pitch) + (coord[3] * system.slot_pitch),
    coord[2] * system.rack_pitch,
    0>>

cabinet_to_physical(boards, system) ==
  [i \in DOMAIN boards |-> <<boards[i][1], get_position(system, boards[i][2])>>]

\* ------------------------------------------------------------- the script
\* The statements of the script in the order they run.
Script_report_first ==
  <<"print_preamble", "print_introduction", "create_torus",
    "hex_to_cartesian", "rhombus_to_rect", "compress", "space_folds", "fold",
    "space_folds_folded", "space_folds_cabinet", "cabinetise",
    "cabinet_to_physical", "wiring_loops", "wire_cabinet_stats",
    "wiring_patterns", "wiring_instructions", "print_wiring_patterns">>

Script ==
  <<"create_torus", "hex_to_cartesian", "rhombus_to_rect", "compress",
    "space_folds", "fold", "space_folds_folded", "space_folds_cabinet",
    "cabinetise", "cabinet_to_physical", "wiring_loops",
    "wire_cabinet_stats", "wiring_patterns", "wiring_instructions",
    "print_preamble",
    "print_introduction", "print_wiring_patterns">>

\* The statement that follows `step`, or "done" after the last one.
after(step) ==
  LET i == CHOOSE k \in DOMAIN Script : Script[k] = step
  IN  IF i = Len(Script) THEN "done" ELSE Script[i + 1]

\* The configurations the model runs the script on.
\* The racks are given the slots that hold the boards, or up to MaxSpare more
\* (too few in all when the boards do not divide among the racks).
SlotCounts(w, h, n_cabinets, n_racks) ==
  {n \in 1..(3 * w * h) + MaxSpare :
     \E spare \in 0..MaxSpare :
       n = ((3 * w * h) \div (n_cabinets * n_racks)) + spare}

Params ==
  {p \in [width : 1..MaxDim, height : 1..MaxDim, compress_rows : BOOLEAN,
          num_folds_x : 1..MaxFolds, num_folds_y : 1..MaxFolds,
          num_cabinets : 1..MaxCabinets, num_racks_per_cabinet : 1..MaxCabinets,
          num_slots_per_rack : 1..(3 * MaxDim * MaxDim) + MaxSpare] :
     p.num_slots_per_rack \in
       SlotCounts(p.width, p.height, p.num_cabinets, p.num_racks_per_cabinet)}

HistIdle ==
  /\ lengths = <<>>
  /\ num_bins = 0
  /\ hist = <<>>
  /\ bin_num = 0
  /\ out_frequencies = <<>>
  /\ freq_stats = <<>>

ScriptIdle ==
  /\ error = "none"
  /\ output = <<>>
  /\ connection = <<>>
  /\ torus = <<>>
  /\ cart_torus = <<>>
  /\ rect_torus = <<>>
  /\ comp_torus = <<>>
  /\ fold_spaced_torus = <<>>
  /\ folded_torus = <<>>
  /\ folded_spaced_torus = <<>>
  /\ folded_cabinet_spaced_torus = <<>>
  /\ cabinet_torus = <<>>
  /\ phys_torus = <<>>
  /\ loop = <<>>
  /\ cur_board = 0
  /\ loop_direction = "none"
  /\ loop_call = 1
  /\ wiring_loop_length = [d \in PrincipalDirections |-> 0]
  /\ cabinet_stats = <<>>
  /\ pattern_iter = 0
  /\ grouped_relative_wires = <<>>
  /\ pattern2id = <<>>
  /\ num_colours = 0
  /\ colours = <<>>
  /\ colouring = <<>>
  /\ cabinet_colours = <<>>
  /\ packet_loop = <<>>
  /\ packet_direction = "none"
  /\ packet_metric = 0
  /\ wiring_instructions = <<>>

Init ==
  /\ params \in Params
  /\ pc = Script[1]
  /\ ScriptIdle
  /\ HistIdle

\* An uncaught exception ends the run.
Raise(exception) ==
  /\ pc' = "error"
  /\ error' = exception

\* torus = board.create_torus(width, height)
CreateTorus ==
  /\ pc = "create_torus"
  /\ torus' = create_torus(params.width, params.height)
  /\ connection' = create_connection(params.width, params.height)
  /\ pc' = after("create_torus")
  /\ UNCHANGED <<params, error, output, cart_torus, rect_torus, comp_torus,
                 fold_spaced_torus, folded_torus, folded_spaced_torus,
                 folded_cabinet_spaced_torus, cabinet_torus, phys_torus,
                 loop_vars, cabinet_stats, pattern_vars, hist_vars,
                 packet_vars, wiring_instructions>>

\* cart_torus = transforms.hex_to_cartesian(torus)
\* (the variant relabels a torus of fresh boards, numbered after the first)
HexToCartesian_fresh_boards ==
  /\ pc = "hex_to_cartesian"
  /\ cart_torus' =
       hex_to_cartesian([i \in DOMAIN torus |->
                           <<torus[i][1] + board_count, torus[i][2]>>])
  /\ pc' = after("hex_to_cartesian")
  /\ UNCHANGED <<params, error, output, connection, torus, rect_torus,
                 comp_torus, fold_spaced_torus, folded_torus,
                 folded_spaced_torus, folded_cabinet_spaced_torus,
                 cabinet_torus, phys_torus, loop_vars, cabinet_stats,
                 pattern_vars, hist_vars,
                 packet_vars, wiring_instructions>>

HexToCartesian ==
  /\ pc = "hex_to_cartesian"
  /\ cart_torus' = hex_to_cartesian(torus)
  /\ pc' = after("hex_to_cartesian")
  /\ UNCHANGED <<params, error, output, connection, torus, rect_torus,
                 comp_torus, fold_spaced_torus, folded_torus,
                 folded_spaced_torus, folded_cabinet_spaced_torus,
                 cabinet_torus, phys_torus, loop_vars, cabinet_stats,
                 pattern_vars, hist_vars,
                 packet_vars, wiring_instructions>>

\* rect_torus = transforms.rhombus_to_rect(cart_torus)
RhombusToRect ==
  /\ pc = "rhombus_to_rect"
  /\ rect_torus' = rhombus_to_rect(cart_torus)
  /\ pc' = after("rhombus_to_rect")
  /\ UNCHANGED <<params, error, output, connection, torus, cart_torus,
                 comp_torus, fold_spaced_torus, folded_torus,
                 folded_spaced_torus, folded_cabinet_spaced_torus,
                 cabinet_torus, phys_torus, loop_vars, cabinet_stats,
                 pattern_vars, hist_vars,
                 packet_vars, wiring_instructions>>

\* transforms.compress(rect_torus, 1 if compress_rows else 2,
\*                                 2 if compress_rows else 1)
compress_both_axes(boards, rows) == compress(boards, 2, 2)

compress_call(boards, rows) ==
  compress(boards, IF rows THEN 1 ELSE 2, IF rows THEN 2 ELSE 1)

Compress ==
  /\ pc = "compress"
  /\ comp_torus' = compress_call(rect_torus, params.compress_rows)
  /\ pc' = after("compress")
  /\ UNCHANGED <<params, error, output, connection, torus, cart_torus,
                 rect_torus, fold_spaced_torus, folded_torus,
                 folded_spaced_torus, folded_cabinet_spaced_torus,
                 cabinet_torus, phys_torus, loop_vars, cabinet_stats,
                 pattern_vars, hist_vars,
                 packet_vars, wiring_instructions>>

\* fold_spaced_torus = transforms.space_folds(comp_torus, (num_folds_x, num_folds_y))
SpaceFolds ==
  /\ pc = "space_folds"
  /\ fold_spaced_torus' =
       space_folds(comp_torus, <<params.num_folds_x, params.num_folds_y>>)
  /\ pc' = after("space_folds")
  /\ UNCHANGED <<params, error, output, connection, torus, cart_torus,
                 rect_torus, comp_torus, folded_torus, folded_spaced_torus,
                 folded_cabinet_spaced_torus, cabinet_torus, phys_torus,
                 loop_vars, cabinet_stats, pattern_vars, hist_vars,
                 packet_vars, wiring_instructions>>

\* (variant: transforms.fold(fold_spaced_torus, (num_folds_x, num_folds_y)))
Fold_spaced_input ==
  /\ pc = "fold"
  /\ LET r == fold(fold_spaced_torus, <<params.num_folds_x, params.num_folds_y>>)
     IN  IF r.ok
         THEN /\ folded_torus' = r.value
              /\ pc' = after("fold")
              /\ UNCHANGED error
         ELSE /\ Raise("fold")
              /\ UNCHANGED folded_torus
  /\ UNCHANGED <<params, output, connection, torus, cart_torus, rect_torus,
                 comp_torus, fold_spaced_torus, folded_spaced_torus,
                 folded_cabinet_spaced_torus, cabinet_torus, phys_torus,
                 loop_vars, cabinet_stats, pattern_vars, hist_vars,
                 packet_vars, wiring_instructions>>

\* folded_torus = transforms.fold(comp_torus, (num_folds_x, num_folds_y))
Fold ==
  /\ pc = "fold"
  /\ LET r == fold(comp_torus, <<params.num_folds_x, params.num_folds_y>>)
     IN  IF r.ok
         THEN /\ folded_torus' = r.value
              /\ pc' = after("fold")
              /\ UNCHANGED error
         ELSE /\ Raise("fold")
              /\ UNCHANGED folded_torus
  /\ UNCHANGED <<params, output, connection, torus, cart_torus, rect_torus,
                 comp_torus, fold_spaced_torus, folded_spaced_torus,
                 folded_cabinet_spaced_torus, cabinet_torus, phys_torus,
                 loop_vars, cabinet_stats, pattern_vars, hist_vars,
                 packet_vars, wiring_instructions>>

\* folded_spaced_torus = transforms.space_folds(folded_torus, (num_folds_x, num_folds_y))
SpaceFoldsFolded ==
  /\ pc = "space_folds_folded"
  /\ folded_spaced_torus' =
       space_folds(folded_torus, <<params.num_folds_x, params.num_folds_y>>)
  /\ pc' = after("space_folds_folded")
  /\ UNCHANGED <<params, error, output, connection, torus, cart_torus,
                 rect_torus, comp_torus, fold_spaced_torus, folded_torus,
                 folded_cabinet_spaced_torus, cabinet_torus, phys_torus,
                 loop_vars, cabinet_stats, pattern_vars, hist_vars,
                 packet_vars, wiring_instructions>>

\* folded_cabinet_spaced_torus =
\*   transforms.space_folds(folded_torus, (num_cabinets, num_racks_per_cabinet))
SpaceFoldsCabinet ==
  /\ pc = "space_folds_cabinet"
  /\ folded_cabinet_spaced_torus' =
       space_folds(folded_torus,
                   <<params.num_cabinets, params.num_racks_per_cabinet>>)
  /\ pc' = after("space_folds_cabinet")
  /\ UNCHANGED <<params, error, output, connection, torus, cart_torus,
                 rect_torus, comp_torus, fold_spaced_torus, folded_torus,
                 folded_spaced_torus, cabinet_torus, phys_torus, loop_vars,
                 cabinet_stats, pattern_vars, hist_vars,
                 packet_vars, wiring_instructions>>

\* cabinet_torus = transforms.cabinetise(folded_torus, num_cabinets,
\*                                       num_racks_per_cabinet, num_slots_per_rack)
cabinetise_call_swapped(boards, p) ==
  cabinetise(boards, p.num_racks_per_cabinet, p.num_cabinets, p.num_slots_per_rack)

cabinetise_call(boards, p) ==
  cabinetise(boards, p.num_cabinets, p.num_racks_per_cabinet, p.num_slots_per_rack)

Cabinetise ==
  /\ pc = "cabinetise"
  /\ LET r == cabinetise_call(folded_torus, params)
     IN  IF r.ok
         THEN /\ cabinet_torus' = r.value
              /\ pc' = after("cabinetise")
              /\ UNCHANGED error
         ELSE /\ Raise("cabinetise")
              /\ UNCHANGED cabinet_torus
  /\ UNCHANGED <<params, output, connection, torus, cart_torus, rect_torus,
                 comp_torus, fold_spaced_torus, folded_torus,
                 folded_spaced_torus, folded_cabinet_spaced_torus, phys_torus,
                 loop_vars, cabinet_stats, pattern_vars, hist_vars,
                 packet_vars, wiring_instructions>>

\* phys_torus = transforms.cabinet_to_physical(cabinet_torus, cabinet_system)
CabinetToPhysical ==
  /\ pc = "cabinet_to_physical"
  /\ phys_torus' = cabinet_to_physical(cabinet_torus, cabinet_system)
  /\ pc' = after("cabinet_to_physical")
  /\ UNCHANGED <<params, error, output, connection, torus, cart_torus,
                 rect_torus, comp_torus, fold_spaced_torus, folded_torus,
                 folded_spaced_torus, folded_cabinet_spaced_torus,
                 cabinet_torus, loop_vars, cabinet_stats, pattern_vars,
                 hist_vars,
                 packet_vars, wiring_instructions>>

\* ------------------------------------------------------- topology metrics
\* c2b = dict((c, b) for (b, c) in boards)
c2b(boards) ==
  [c \in CoordsOf(boards) |->
     boards[SetMax({i \in DOMAIN boards : boards[i][2] = c})][1]]

\* generate_wiring_loop returns the number of boards of the loop.
generate_wiring_loop_overcount(the_loop) == Len(the_loop) + 1

generate_wiring_loop_result(the_loop) == Len(the_loop)

\* The boards a wiring loop visits are gathered one wire at a time.
\* loop = list(board.follow_wiring_loop(start_board, direction)): the first
\* board is yielded and the wire followed once.
StartLoop(start, direction) ==
  LET start_board == c2b(torus)[start]
  IN  /\ loop' = <<start_board>>
      /\ cur_board' = follow_wire(start_board, direction)
      /\ loop_direction' = direction

\* wiring_loop_north_length = generate_wiring_loop(torus, NORTH, d), then EAST
\* and SOUTH_WEST: each call starts at the default start = (0, 0, 0).
WiringLoopStart ==
  /\ pc = "wiring_loops"
  /\ loop = <<>>
  /\ StartLoop(<<0, 0, 0>>, DIRECTION_COLOURS[loop_call])
  /\ UNCHANGED <<params, pc, error, output, connection, pipeline_vars,
                 loop_call, wiring_loop_length, cabinet_stats, pattern_vars,
                 hist_vars,
                 packet_vars, wiring_instructions>>

\* generate_wiring_loop(boards, direction, diagram, start) for any start and
\* direction.
WiringLoopStartAny ==
  /\ pc = "wiring_loops"
  /\ loop = <<>>
  /\ \E start \in CoordsOf(torus), direction \in Directions :
       StartLoop(start, direction)
  /\ UNCHANGED <<params, pc, error, output, connection, pipeline_vars,
                 loop_call, wiring_loop_length, cabinet_stats, pattern_vars,
                 hist_vars,
                 packet_vars, wiring_instructions>>

\* while cur_board != start_board: yield cur_board and follow the wire.
WiringLoopStep ==
  /\ pc = "wiring_loops"
  /\ loop # <<>>
  /\ cur_board # loop[1]
  /\ Len(loop) <= board_count
  /\ loop' = Append(loop, cur_board)
  /\ cur_board' = follow_wire(cur_board, loop_direction)
  /\ UNCHANGED <<params, pc, error, output, connection, pipeline_vars,
                 loop_direction, loop_call, wiring_loop_length, cabinet_stats,
                 pattern_vars, hist_vars,
                 packet_vars, wiring_instructions>>

\* The generator is exhausted: the style of the direction is looked up (only
\* the principal directions have a colour) and the length is returned.
WiringLoopReturn ==
  /\ pc = "wiring_loops"
  /\ loop # <<>>
  /\ cur_board = loop[1]
  /\ IF loop_direction \in PrincipalDirections
     THEN /\ wiring_loop_length' =
               [wiring_loop_length EXCEPT
                  ![loop_direction] = generate_wiring_loop_result(loop)]
          /\ loop_call' = loop_call + 1
          /\ pc' = IF loop_call = Len(DIRECTION_COLOURS)
                   THEN after("wiring_loops") ELSE pc
          /\ UNCHANGED error
     ELSE /\ Raise("KeyError")
          /\ UNCHANGED <<wiring_loop_length, loop_call>>
  /\ loop' = <<>>
  /\ cur_board' = 0
  /\ loop_direction' = "none"
  /\ UNCHANGED <<params, output, connection, pipeline_vars, cabinet_stats,
                 pattern_vars, hist_vars,
                 packet_vars, wiring_instructions>>

\* ------------------------------------------------- wiring stats for cabinets
CoordSub(a, b) == [k \in DOMAIN a |-> a[k] - b[k]]
CoordAbs(a) == [k \in DOMAIN a |-> IF a[k] < 0 THEN 0 - a[k] ELSE a[k]]

\* b2c[board.follow_wire(direction)]
wire_target(boards, board, direction) ==
  dict(boards)[follow_wire(board, direction)]

\* The counter a wire adds to: 1 when it changes cabinet, 2 when it changes
\* rack only, 3 when it changes slot only, 0 for the assert(False) branch.
\* (variant: slots, racks, cabinets = abs(target - source))
wire_counter_axes_reversed(boards, board, direction) ==
  LET source == dict(boards)[board]
      target == dict(boards)[follow_wire(board, direction)]
      diff == CoordAbs(CoordSub(target, source))
  IN  IF diff[3] > 0 THEN 1
      ELSE IF diff[2] > 0 THEN 2
      ELSE IF diff[1] > 0 THEN 3
      ELSE 0

\* (variant: without the elif slots > 0 branch)
wire_counter_no_slots(boards, board, direction) ==
  LET source == dict(boards)[board]
      target == dict(boards)[follow_wire(board, direction)]
      diff == CoordAbs(CoordSub(target, source))
  IN  IF diff[1] > 0 THEN 1
      ELSE IF diff[2] > 0 THEN 2
      ELSE 0

wire_counter(boards, board, direction) ==
  LET source == dict(boards)[board]
      target == wire_target(boards, board, direction)
      diff == CoordAbs(CoordSub(target, source))
  IN  IF diff[1] > 0 THEN 1
      ELSE IF diff[2] > 0 THEN 2
      ELSE IF diff[3] > 0 THEN 3
      ELSE 0

\* The counters of a direction once every board of cabinet_torus was visited.
wire_counters(boards, direction) ==
  [k \in 1..3 |->
     Cardinality({i \in DOMAIN cabinet_torus :
                    wire_counter(boards, cabinet_torus[i][1], direction) = k})]

\* A row of the table: total, staying in-rack, between racks, between cabinets.
stats_row_unreversed(counters) ==
  <<counters[1] + counters[2] + counters[3], counters[1], counters[2], counters[3]>>

stats_row(counters) ==
  <<counters[1] + counters[2] + counters[3], counters[3], counters[2], counters[1]>>

\* The Total row: the sum of every counter, then the column sums.
total_row(stats) ==
  <<SumSeq([k \in DOMAIN stats |-> stats[k][1] + stats[k][2] + stats[k][3]]),
    SumSeq([k \in DOMAIN stats |-> stats[k][3]]),
    SumSeq([k \in DOMAIN stats |-> stats[k][2]]),
    SumSeq([k \in DOMAIN stats |-> stats[k][1]])>>

calculate_wire_cabinet_stats(boards) ==
  LET stats == [k \in DOMAIN DIRECTION_COLOURS |->
                  wire_counters(boards, DIRECTION_COLOURS[k])]
  IN  IF \E i \in DOMAIN cabinet_torus, k \in DOMAIN DIRECTION_COLOURS :
           wire_counter(boards, cabinet_torus[i][1], DIRECTION_COLOURS[k]) = 0
      THEN Raised
      ELSE Returned([wire_cabinet_stats |->
                       [k \in DOMAIN stats |-> stats_row(stats[k])],
                     total_wire_cabinet_stats |-> total_row(stats)])

\* wire_cabinet_stats, total_wire_cabinet_stats =
\*   calculate_wire_cabinet_stats(cabinet_torus)
WireCabinetStats ==
  /\ pc = "wire_cabinet_stats"
  /\ LET r == calculate_wire_cabinet_stats(cabinet_torus)
     IN  IF r.ok
         THEN /\ cabinet_stats' = r.value
              /\ pc' = after("wire_cabinet_stats")
              /\ UNCHANGED error
         ELSE /\ Raise("AssertionError")
              /\ UNCHANGED cabinet_stats
  /\ UNCHANGED <<params, output, connection, pipeline_vars, loop_vars,
                 pattern_vars, hist_vars,
                 packet_vars, wiring_instructions>>

\* ---------------------------------------------------- wiring pattern finding
\* A list of (coord, wire_relative_target) tuples, one per board.
get_relative_wires(boards, direction) ==
  [i \in DOMAIN boards |->
     <<boards[i][2],
       CoordSub(wire_target(boards, boards[i][1], direction), boards[i][2])>>]

\* The three filters of the pattern loop, by position.
\* (variant: "Change Rack" as lambda o: o[1]!=0)
wire_filter_any_cabinet(k, o) ==
  CASE k = 1 -> o[1] = 0 /\ o[2] = 0
    [] k = 2 -> o[2] # 0
    [] k = 3 -> o[1] # 0

wire_filter(k, o) ==
  CASE k = 1 -> o[1] = 0 /\ o[2] = 0
    [] k = 2 -> o[1] = 0 /\ o[2] # 0
    [] k = 3 -> o[1] # 0

filter_names == <<"Change Slot", "Change Rack", "Change Cabinet">>

\* The grouping the pattern loop asks for: one group per board, no element key.
group_key(coord) == coord
elem_key(coord) == "None"

\* {key: frozenset([(elem, wire_relative_target), ...]), ...}
group_relative_wires(rel_wires) ==
  [g \in {group_key(rel_wires[i][1]) : i \in DOMAIN rel_wires} |->
     {<<elem_key(rel_wires[i][1]), rel_wires[i][2]>> :
        i \in {j \in DOMAIN rel_wires : group_key(rel_wires[j][1]) = g}}]

\* {item: count, ...} over the values of a dict, one per key.
distinct_count(d) ==
  [item \in {d[g] : g \in DOMAIN d} |->
     Cardinality({g \in DOMAIN d : d[g] = item})]

\* The keys of a dict in the order the dict yields them: some fixed order.
RECURSIVE keys(_)
keys(S) ==
  IF S = {} THEN <<>>
  ELSE LET x == CHOOSE e \in S : TRUE IN <<x>> \o keys(S \ {x})

\* pattern2id = dict((p, i) for (i, p) in enumerate(distinct_pattern_counts.keys()))
pattern2id_from_counts(distinct_pattern_counts) ==
  [p \in DOMAIN distinct_pattern_counts |-> distinct_pattern_counts[p] - 1]

make_pattern2id(distinct_pattern_counts) ==
  LET ks == keys(DOMAIN distinct_pattern_counts)
  IN  [p \in DOMAIN distinct_pattern_counts |->
         (CHOOSE i \in DOMAIN ks : ks[i] = p) - 1]

\* (max(pattern2id.itervalues()) + 1 if pattern2id else 1); max() of nothing
\* raises ValueError.
num_colours_unguarded(ids) ==
  IF DOMAIN ids # {} THEN Returned(SetMax({ids[p] : p \in DOMAIN ids}) + 1)
  ELSE Raised

num_colours_arg(ids) ==
  IF DOMAIN ids # {} THEN Returned(SetMax({ids[p] : p \in DOMAIN ids}) + 1)
  ELSE Returned(1)

\* generate_cabinet_colouring_diagram: the palette.
spectrum == <<"red", "green", "blue", "yellow">>

\* segment_size = (num_colours+len(spectrum)-2) / (len(spectrum)-1)
segment_size(n) == (n + Len(spectrum) - 2) \div (Len(spectrum) - 1)

\* spectrum[i / segment_size:][:2], as the first index of the slice and the
\* number of colours it has.
spectrum_start(n, i) == (i \div segment_size(n)) + 1
spectrum_slice_len(n, i) ==
  IF spectrum_start(n, i) > Len(spectrum) THEN 0
  ELSE IF spectrum_start(n, i) = Len(spectrum) THEN 1
  ELSE 2

\* point = 100 - (((i % segment_size) * 100) / segment_size)
colour_point(n, i) ==
  100 - (((i % segment_size(n)) * 100) \div segment_size(n))

\* "%s!%d!%s" % (start_colour, point, end_colour), as its three fields.
colour(n, i) ==
  <<spectrum[spectrum_start(n, i)], colour_point(n, i),
    spectrum[spectrum_start(n, i) + 1]>>

\* colours, or the ValueError of unpacking a slice of fewer than two colours.
palette(n) ==
  IF \E i \in 0..(n - 1) : spectrum_slice_len(n, i) < 2 THEN Raised
  ELSE Returned([k \in 1..n |-> colour(n, k - 1)])

\* d.add_board_cabinet(coord, coord, ["fill=%s" % colours[colour_index]])
board_colours(ids_of, the_colours) ==
  [coord \in DOMAIN ids_of |-> the_colours[ids_of[coord] + 1]]

\* One pass of the loops over the three filters and the principal directions.
WiringPatterns ==
  /\ pc = "wiring_patterns"
  /\ pattern_iter < 3 * Len(DIRECTION_COLOURS)
  /\ LET k == (pattern_iter \div Len(DIRECTION_COLOURS)) + 1
         direction == DIRECTION_COLOURS[(pattern_iter % Len(DIRECTION_COLOURS)) + 1]
         relative_wires ==
           SelectSeq(get_relative_wires(cabinet_torus, direction),
                     LAMBDA w : wire_filter(k, w[2]))
         grouped == group_relative_wires(relative_wires)
         ids == make_pattern2id(distinct_count(grouped))
         n == num_colours_arg(ids)
         the_palette == palette(n.value)
     IN  /\ grouped_relative_wires' = grouped
         /\ pattern2id' = ids
         /\ cabinet_colours' = [g \in DOMAIN grouped |-> ids[grouped[g]]]
         /\ IF n.ok /\ the_palette.ok
            THEN /\ num_colours' = n.value
                 /\ colours' = the_palette.value
                 /\ colouring' =
                      board_colours(cabinet_colours', the_palette.value)
                 /\ pattern_iter' = pattern_iter + 1
                 /\ pc' = IF pattern_iter' = 3 * Len(DIRECTION_COLOURS)
                          THEN after("wiring_patterns") ELSE pc
                 /\ UNCHANGED error
            ELSE /\ Raise("ValueError")
                 /\ pattern_iter' = pattern_iter + 1
                 /\ UNCHANGED <<num_colours, colours, colouring>>
  /\ UNCHANGED <<params, output, connection, pipeline_vars, loop_vars,
                 cabinet_stats, hist_vars, packet_vars, wiring_instructions>>

\* -------------------------------------------- wiring instruction generation
\* socket_names[direction]: the name of the socket a wire of a direction uses.
socket_names == [d \in Directions |-> d]

\* The order of two strings, as the position of each among the socket names
\* in the order strings compare.
string_rank(name) ==
  LET names == <<EAST, NORTH, NORTH_EAST, SOUTH, SOUTH_WEST, WEST>>
  IN  CHOOSE i \in DOMAIN names : names[i] = name

\* a < b for two (cabinet, rack, slot, socket) tuples.
end_less(a, b) ==
  \/ a[1] < b[1]
  \/ a[1] = b[1] /\ a[2] < b[2]
  \/ a[1] = b[1] /\ a[2] = b[2] /\ a[3] < b[3]
  \/ a[1] = b[1] /\ a[2] = b[2] /\ a[3] = b[3]
       /\ string_rank(a[4]) < string_rank(b[4])

\* a < b for two (source, target) tuples.
wire_less(a, b) ==
  \/ end_less(a[1], b[1])
  \/ a[1] = b[1] /\ end_less(a[2], b[2])

\* sorted(wires)
RECURSIVE insert_wire(_, _)
insert_wire(sorted, wire) ==
  IF sorted = <<>> THEN <<wire>>
  ELSE IF wire_less(wire, Head(sorted)) THEN <<wire>> \o sorted
  ELSE <<Head(sorted)>> \o insert_wire(Tail(sorted), wire)

RECURSIVE sorted_wires(_)
sorted_wires(ws) ==
  IF ws = <<>> THEN <<>>
  ELSE insert_wire(sorted_wires(SubSeq(ws, 1, Len(ws) - 1)), ws[Len(ws)])

\* generate_wiring_list: the rows of a wiring table.
generate_wiring_list_unsorted(ws) == ws

generate_wiring_list(ws) == sorted_wires(ws)

\* The wire of a board and a direction: its two ends, the lower one first.
wire_of_same_socket(boards, board, source_coord, direction) ==
  LET target_coord == dict(boards)[follow_wire(board, direction)]
      source == source_coord \o <<socket_names[direction]>>
      target == target_coord \o <<socket_names[direction]>>
  IN  IF end_less(target, source) THEN <<target, source>> ELSE <<source, target>>

wire_of(boards, board, source_coord, direction) ==
  LET target_coord == dict(boards)[follow_wire(board, direction)]
      source == source_coord \o <<socket_names[direction]>>
      target == target_coord \o <<socket_names[opposite(direction)]>>
  IN  IF end_less(target, source) THEN <<target, source>> ELSE <<source, target>>

\* wires: one per board of cabinet_torus and principal direction, in order.
wires_of(boards) ==
  [i \in 1..(Len(cabinet_torus) * Len(DIRECTION_COLOURS)) |->
     LET b == ((i - 1) \div Len(DIRECTION_COLOURS)) + 1
         d == DIRECTION_COLOURS[((i - 1) % Len(DIRECTION_COLOURS)) + 1]
     IN  wire_of(boards, cabinet_torus[b][1], cabinet_torus[b][2], d)]

\* The group a wire is appended to.
in_same_rack(wire) == wire[1][1] = wire[2][1] /\ wire[1][2] = wire[2][2]
in_same_cabinet(wire) == ~in_same_rack(wire) /\ wire[1][1] = wire[2][1]
in_other_cabinet(wire) == ~in_same_rack(wire) /\ wire[1][1] # wire[2][1]

\* wires_between_slots[(cabinet, rack)], [] for a key never appended to.
slots_group(wires, cabinet, rack) ==
  SelectSeq(wires, LAMBDA w : in_same_rack(w) /\ w[1][1] = cabinet /\ w[1][2] = rack)

\* wires_between_racks[cabinet]
racks_group(wires, cabinet) ==
  SelectSeq(wires, LAMBDA w : in_same_cabinet(w) /\ w[1][1] = cabinet)

\* wires_between_cabinets
cabinets_group(wires) == SelectSeq(wires, LAMBDA w : in_other_cabinet(w))

\* The tables of the instructions in the order they are written: the scope,
\* the cabinet and rack of the heading, the rows.
wiring_tables(wires) ==
  LET n_cabinets == params.num_cabinets
      n_racks == params.num_racks_per_cabinet
      within_racks ==
        [i \in 1..(n_cabinets * n_racks) |->
           LET c == (i - 1) \div n_racks
               r == (i - 1) % n_racks
           IN  <<"Wires Within Racks", <<c, r>>,
                 generate_wiring_list(slots_group(wires, c, r))>>]
      within_cabinets ==
        IF \E i \in DOMAIN wires : in_same_cabinet(wires[i])
        THEN [i \in 1..n_cabinets |->
                <<"Wires Within Cabinets", <<i - 1>>,
                  generate_wiring_list(racks_group(wires, i - 1))>>]
        ELSE <<>>
      between_cabinets ==
        IF \E i \in DOMAIN wires : in_other_cabinet(wires[i])
        THEN << <<"Wires Between Cabinets", <<>>,
                 generate_wiring_list(cabinets_group(wires))>> >>
        ELSE <<>>
  IN  within_racks \o within_cabinets \o between_cabinets

generate_wiring_instructions(boards) ==
  LET wires == wires_of(boards)
  IN  [wires |-> wires, out |-> wiring_tables(wires)]

\* wiring_instructions = generate_wiring_instructions(cabinet_torus, socket_names)
WiringInstructions ==
  /\ pc = "wiring_instructions"
  /\ wiring_instructions' = generate_wiring_instructions(cabinet_torus)
  /\ pc' = after("wiring_instructions")
  /\ UNCHANGED <<params, error, output, connection, pipeline_vars, loop_vars,
                 cabinet_stats, pattern_vars, hist_vars, packet_vars>>

\* ------------------------------------------------------------- the report
PrintPreamble ==
  /\ pc = "print_preamble"
  /\ output' = Append(output, "preamble")
  /\ pc' = after("print_preamble")
  /\ UNCHANGED <<params, error, connection, pipeline_vars, loop_vars,
                 cabinet_stats, pattern_vars, hist_vars,
                 packet_vars, wiring_instructions>>

PrintIntroduction ==
  /\ pc = "print_introduction"
  /\ output' = Append(output, "introduction")
  /\ pc' = after("print_introduction")
  /\ UNCHANGED <<params, error, connection, pipeline_vars, loop_vars,
                 cabinet_stats, pattern_vars, hist_vars,
                 packet_vars, wiring_instructions>>

PrintWiringPatterns ==
  /\ pc = "print_wiring_patterns"
  /\ output' = Append(output, "wiring_patterns")
  /\ pc' = after("print_wiring_patterns")
  /\ UNCHANGED <<params, error, connection, pipeline_vars, loop_vars,
                 cabinet_stats, pattern_vars, hist_vars,
                 packet_vars, wiring_instructions>>

Next ==
  \/ CreateTorus
  \/ HexToCartesian
  \/ RhombusToRect
  \/ Compress
  \/ SpaceFolds
  \/ Fold
  \/ SpaceFoldsFolded
  \/ SpaceFoldsCabinet
  \/ Cabinetise
  \/ CabinetToPhysical
  \/ WiringLoopStart
  \/ WiringLoopStep
  \/ WiringLoopReturn
  \/ WireCabinetStats
  \/ WiringPatterns
  \/ WiringInstructions
  \/ PrintPreamble
  \/ PrintIntroduction
  \/ PrintWiringPatterns

Spec == Init /\ [][Next]_vars

\* ------------------------------------------- wiring loops from any board
\* The state the script is in when it reaches the wiring loops, for the
\* plainest configuration of each torus size: no folds, one cabinet, one rack.
LoopParams ==
  {[width |-> w, height |-> h, compress_rows |-> FALSE,
    num_folds_x |-> 1, num_folds_y |-> 1,
    num_cabinets |-> 1, num_racks_per_cabinet |-> 1,
    num_slots_per_rack |-> 3 * w * h] : w \in 1..MaxDim, h \in 1..MaxDim}

LoopInit ==
  /\ params \in LoopParams
  /\ pc = "wiring_loops"
  /\ error = "none"
  /\ output = <<>>
  /\ connection = create_connection(params.width, params.height)
  /\ torus = create_torus(params.width, params.height)
  /\ cart_torus = hex_to_cartesian(torus)
  /\ rect_torus = rhombus_to_rect(cart_torus)
  /\ comp_torus = compress_call(rect_torus, params.compress_rows)
  /\ fold_spaced_torus =
       space_folds(comp_torus, <<params.num_folds_x, params.num_folds_y>>)
  /\ fold(comp_torus, <<params.num_folds_x, params.num_folds_y>>).ok
  /\ folded_torus = fold(comp_torus, <<params.num_folds_x, params.num_folds_y>>).value
  /\ folded_spaced_torus =
       space_folds(folded_torus, <<params.num_folds_x, params.num_folds_y>>)
  /\ folded_cabinet_spaced_torus =
       space_folds(folded_torus,
                   <<params.num_cabinets, params.num_racks_per_cabinet>>)
  /\ cabinetise_call(folded_torus, params).ok
  /\ cabinet_torus = cabinetise_call(folded_torus, params).value
  /\ phys_torus = cabinet_to_physical(cabinet_torus, cabinet_system)
  /\ loop = <<>>
  /\ cur_board = 0
  /\ loop_direction = "none"
  /\ loop_call = 1
  /\ wiring_loop_length = [d \in PrincipalDirections |-> 0]
  /\ cabinet_stats = <<>>
  /\ pattern_iter = 0
  /\ grouped_relative_wires = <<>>
  /\ pattern2id = <<>>
  /\ num_colours = 0
  /\ colours = <<>>
  /\ colouring = <<>>
  /\ cabinet_colours = <<>>
  /\ packet_loop = <<>>
  /\ packet_direction = "none"
  /\ packet_metric = 0
  /\ wiring_instructions = <<>>
  /\ HistIdle

LoopNext ==
  \/ WiringLoopStartAny
  \/ WiringLoopStep
  \/ WiringLoopReturn

SpecLoop == LoopInit /\ [][LoopNext]_vars

\* ------------------------------------------------------------ packet loops
\* generate_packet_loop(boards, direction, diagram, start), called on the
\* torus.  board.follow_packet_loop records (entry direction, board) pairs:
\* the first is the start board entered from opposite(direction); each next
\* one is what follow_packet returns, the board across the wire of the side
\* the packet is re-emitted on, entered from the opposite of that side.  The
\* table that fixes the side is not part of the script: any side is allowed.
\* return ((len(loop)*3)/2) * 4
generate_packet_loop_result(the_loop) == ((Len(the_loop) * 3) \div 2) * 4

PacketInit ==
  /\ params \in LoopParams
  /\ pc = "packet_loops"
  /\ error = "none"
  /\ output = <<>>
  /\ connection = create_connection(params.width, params.height)
  /\ torus = create_torus(params.width, params.height)
  /\ cart_torus = <<>>
  /\ rect_torus = <<>>
  /\ comp_torus = <<>>
  /\ fold_spaced_torus = <<>>
  /\ folded_torus = <<>>
  /\ folded_spaced_torus = <<>>
  /\ folded_cabinet_spaced_torus = <<>>
  /\ cabinet_torus = <<>>
  /\ phys_torus = <<>>
  /\ loop = <<>>
  /\ cur_board = 0
  /\ loop_direction = "none"
  /\ loop_call = 1
  /\ wiring_loop_length = [d \in PrincipalDirections |-> 0]
  /\ cabinet_stats = <<>>
  /\ pattern_iter = 0
  /\ grouped_relative_wires = <<>>
  /\ pattern2id = <<>>
  /\ num_colours = 0
  /\ colours = <<>>
  /\ colouring = <<>>
  /\ cabinet_colours = <<>>
  /\ packet_loop = <<>>
  /\ packet_direction = "none"
  /\ packet_metric = 0
  /\ wiring_instructions = <<>>
  /\ HistIdle

\* c2b[start]; the loop starts at (opposite(direction), start_board).
PacketLoopStart ==
  /\ pc = "packet_loops"
  /\ packet_loop = <<>>
  /\ \E start \in CoordsOf(torus), direction \in Directions :
       /\ packet_loop' = << <<opposite(direction), c2b(torus)[start]>> >>
       /\ packet_direction' = direction
  /\ UNCHANGED <<params, pc, error, output, connection, pipeline_vars,
                 loop_vars, cabinet_stats, pattern_vars, hist_vars,
                 packet_metric, wiring_instructions>>

\* in_wire_side, cur_board = cur_board.follow_packet(in_wire_side, direction)
PacketLoopStep ==
  /\ pc = "packet_loops"
  /\ packet_loop # <<>>
  /\ Len(packet_loop) < MaxPacketLoop
  /\ \E out_wire_side \in Directions :
       packet_loop' =
         Append(packet_loop,
                <<opposite(out_wire_side),
                  follow_wire(packet_loop[Len(packet_loop)][2], out_wire_side)>>)
  /\ UNCHANGED <<params, pc, error, output, connection, pipeline_vars,
                 loop_vars, cabinet_stats, pattern_vars, hist_vars,
                 packet_direction, packet_metric, wiring_instructions>>

\* style = ["thick", dict(DIRECTION_COLOURS)[direction]] ... return
PacketLoopReturn ==
  /\ pc = "packet_loops"
  /\ packet_loop # <<>>
  /\ IF packet_direction \in PrincipalDirections
     THEN /\ packet_metric' = generate_packet_loop_result(packet_loop)
          /\ pc' = "done"
          /\ UNCHANGED error
     ELSE /\ Raise("KeyError")
          /\ UNCHANGED packet_metric
  /\ UNCHANGED <<params, output, connection, pipeline_vars, loop_vars,
                 cabinet_stats, pattern_vars, hist_vars, packet_loop,
                 packet_direction, wiring_instructions>>

PacketNext ==
  \/ PacketLoopStart
  \/ PacketLoopStep
  \/ PacketLoopReturn

SpecPacket == PacketInit /\ [][PacketNext]_vars

\* ------------------------------------------- generate_cabinet_colouring_diagram
\* generate_cabinet_colouring_diagram called with any num_colours from 1 to
\* MaxColours and with two boards, whose colour indexes are among the first
\* two and the last.
PaletteIds(n) == {0, 1, n - 1} \cap (0..(n - 1))

PaletteInit ==
  /\ params \in {p \in LoopParams : p.width = 1 /\ p.height = 1}
  /\ pc = "colours"
  /\ error = "none"
  /\ output = <<>>
  /\ connection = <<>>
  /\ torus = <<>>
  /\ cart_torus = <<>>
  /\ rect_torus = <<>>
  /\ comp_torus = <<>>
  /\ fold_spaced_torus = <<>>
  /\ folded_torus = <<>>
  /\ folded_spaced_torus = <<>>
  /\ folded_cabinet_spaced_torus = <<>>
  /\ cabinet_torus = <<>>
  /\ phys_torus = <<>>
  /\ loop = <<>>
  /\ cur_board = 0
  /\ loop_direction = "none"
  /\ loop_call = 1
  /\ wiring_loop_length = [d \in PrincipalDirections |-> 0]
  /\ cabinet_stats = <<>>
  /\ pattern_iter = 0
  /\ grouped_relative_wires = <<>>
  /\ pattern2id = <<>>
  /\ num_colours \in 1..MaxColours
  /\ \E first \in PaletteIds(num_colours), second \in PaletteIds(num_colours) :
       cabinet_colours = <<first, second>>
  /\ colours = <<>>
  /\ colouring = <<>>
  /\ packet_loop = <<>>
  /\ packet_direction = "none"
  /\ packet_metric = 0
  /\ wiring_instructions = <<>>
  /\ HistIdle

\* colours = [] ; for i in range(num_colours): ... colours.append(...)
GenerateColours ==
  /\ pc = "colours"
  /\ LET the_palette == palette(num_colours)
     IN  IF the_palette.ok
         THEN /\ colours' = the_palette.value
              /\ pc' = "add_boards"
              /\ UNCHANGED error
         ELSE /\ Raise("ValueError")
              /\ UNCHANGED colours
  /\ UNCHANGED <<params, output, connection, pipeline_vars, loop_vars,
                 cabinet_stats, pattern_iter, grouped_relative_wires,
                 pattern2id, num_colours, cabinet_colours, colouring,
                 hist_vars, packet_vars, wiring_instructions>>

\* for coord, colour_index in cabinet_colours.iteritems(): d.add_board_cabinet(...)
AddBoards ==
  /\ pc = "add_boards"
  /\ colouring' = board_colours(cabinet_colours, colours)
  /\ pc' = "done"
  /\ UNCHANGED <<params, error, output, connection, pipeline_vars, loop_vars,
                 cabinet_stats, pattern_iter, grouped_relative_wires,
                 pattern2id, num_colours, cabinet_colours, colours,
                 hist_vars, packet_vars, wiring_instructions>>

PaletteNext ==
  \/ GenerateColours
  \/ AddBoards

SpecPalette == PaletteInit /\ [][PaletteNext]_vars

\* ------------------------------------------------------ wiring length stats
\* The lengths are floating point numbers (metrics.wire_length).  A number is
\* a fraction <<n, d>> in lowest terms, d > 0; the Rat operators are exact.
RECURSIVE gcd(_, _)
gcd(a, b) == IF b = 0 THEN a ELSE gcd(b, a % b)

Rat(n, d) ==
  LET g == gcd(IF n < 0 THEN 0 - n ELSE n, d)
  IN  <<n \div g, d \div g>>
RatAdd(a, b) == Rat((a[1] * b[2]) + (b[1] * a[2]), a[2] * b[2])
RatSub(a, b) == Rat((a[1] * b[2]) - (b[1] * a[2]), a[2] * b[2])
RatTimes(k, a) == Rat(k * a[1], a[2])
RatDiv(a, k) == Rat(a[1], a[2] * k)
RatAbs(a) == <<IF a[1] < 0 THEN 0 - a[1] ELSE a[1], a[2]>>
RatLess(a, b) == a[1] * b[2] < b[1] * a[2]
RatLeq(a, b) == a[1] * b[2] <= b[1] * a[2]
RatEq(a, b) == a[1] * b[2] = b[1] * a[2]

RECURSIVE pow2(_)
pow2(e) == IF e = 0 THEN 1 ELSE 2 * pow2(e - 1)

\* The result of a floating point operation is the exact result rounded to
\* the nearest number of FloatBits significant bits, ties to the even one
\* (the build's floats have 53).  exponent is the number of binary places that
\* leaves FloatBits bits before the point; the values here are below
\* 2^FloatBits and not negative.
RECURSIVE exponent(_, _)
exponent(x, e) ==
  IF x[1] * pow2(e) >= pow2(FloatBits - 1) * x[2] THEN e
  ELSE exponent(x, e + 1)

fl(x) ==
  IF x[1] = 0 THEN Rat(0, 1)
  ELSE LET e == exponent(x, 0)
           q == (x[1] * pow2(e)) \div x[2]
           r == (x[1] * pow2(e)) % x[2]
           m == IF 2 * r > x[2] \/ (2 * r = x[2] /\ q % 2 = 1)
                THEN q + 1 ELSE q
       IN  Rat(m, pow2(e))

\* The wire lengths of the spec's example and its number of bins.
ScenarioLengths == <<1, 1, 1, 5, 5, 9>>

\* def calculate_wire_length_stats(boards, wire_offsets={}, num_bins = 5)
default_num_bins == 5

\* hist[length] = hist.get(length, 0) + 1, over a list of lengths
histogram(ls) ==
  [l \in {ls[i] : i \in DOMAIN ls} |->
     Cardinality({i \in DOMAIN ls : ls[i] = l})]

min_len(h) == SetMin(DOMAIN h)
max_len(h) == SetMax(DOMAIN h)

\* bin_len = (max_len - min_len) / num_bins
bin_len(h, n) ==
  fl(RatDiv(fl(RatSub(Rat(max_len(h), 1), Rat(min_len(h), 1))), n))

\* min_len + (bin_num*bin_len)
bin_offset(h, n, k) ==
  fl(RatAdd(Rat(min_len(h), 1), fl(RatTimes(k, bin_len(h, n)))))

\* bin_start = (min_len + (bin_num*bin_len)) if bin_num > 0 else 0.0
bin_start_from_min(h, n, k) == bin_offset(h, n, k)

bin_start(h, n, k) == IF k > 0 THEN bin_offset(h, n, k) ELSE Rat(0, 1)

\* bin_end = min_len + (bin_num*bin_len) + bin_len
bin_end(h, n, k) == fl(RatAdd(bin_offset(h, n, k), bin_len(h, n)))

\* bin_start < l <= bin_end
in_bin_left_closed(l, start, end) ==
  RatLeq(start, Rat(l, 1)) /\ RatLess(Rat(l, 1), end)

in_bin(l, start, end) == RatLess(start, Rat(l, 1)) /\ RatLeq(Rat(l, 1), end)

\* sum(c for (l, c) in hist.iteritems() if bin_start < l <= bin_end)
bin_count(h, start, end) ==
  LET ls == keys({l \in DOMAIN h : in_bin(l, start, end)})
  IN  SumSeq([i \in DOMAIN ls |-> h[ls[i]]])

\* sorted(out_frequencies, key = bin_start): a stable sort.
RECURSIVE insert_by_start(_, _)
insert_by_start(sorted, bin) ==
  IF sorted = <<>> THEN <<bin>>
  ELSE IF RatLess(bin[1], Head(sorted)[1]) THEN <<bin>> \o sorted
  ELSE <<Head(sorted)>> \o insert_by_start(Tail(sorted), bin)

RECURSIVE sorted_by_start(_)
sorted_by_start(bins) ==
  IF bins = <<>> THEN <<>>
  ELSE insert_by_start(sorted_by_start(SubSeq(bins, 1, Len(bins) - 1)),
                       bins[Len(bins)])

\* The lists of lengths and the bin counts the function is run on.
LengthLists ==
  UNION {[1..n -> 1..MaxLen] : n \in 1..MaxWires} \cup {ScenarioLengths}

HistInit ==
  /\ lengths \in LengthLists
  /\ num_bins \in 0..MaxBins \cup {default_num_bins}
  /\ pc = "length_histogram"
  /\ hist = <<>>
  /\ bin_num = 0
  /\ out_frequencies = <<>>
  /\ freq_stats = <<>>
  /\ params = CHOOSE p \in LoopParams : p.width = 1 /\ p.height = 1
  /\ ScriptIdle

\* for length in lengths: hist[length] = hist.get(length, 0) + 1, then the
\* smallest and largest length and the bin length (a division by num_bins).
LengthHistogram ==
  /\ pc = "length_histogram"
  /\ hist' = histogram(lengths)
  /\ IF num_bins = 0
     THEN Raise("ZeroDivisionError")
     ELSE /\ pc' = "length_bins"
          /\ UNCHANGED error
  /\ UNCHANGED <<params, output, connection, pipeline_vars, loop_vars,
                 cabinet_stats, pattern_vars, lengths, num_bins, bin_num,
                 out_frequencies, freq_stats,
                 packet_vars, wiring_instructions>>

\* for bin_num in range(num_bins): out_frequencies.append((bin_start, bin_end, count))
LengthBin ==
  /\ pc = "length_bins"
  /\ bin_num < num_bins
  /\ LET start == bin_start(hist, num_bins, bin_num)
         end == bin_end(hist, num_bins, bin_num)
     IN  out_frequencies' =
           Append(out_frequencies, <<start, end, bin_count(hist, start, end)>>)
  /\ bin_num' = bin_num + 1
  /\ UNCHANGED <<params, pc, error, output, connection, pipeline_vars,
                 loop_vars, cabinet_stats, pattern_vars, lengths, num_bins,
                 hist, freq_stats,
                 packet_vars, wiring_instructions>>

\* freq_stats.append((direction, sorted(out_frequencies, key = bin_start)))
LengthSort ==
  /\ pc = "length_bins"
  /\ bin_num = num_bins
  /\ freq_stats' = sorted_by_start(out_frequencies)
  /\ pc' = "done"
  /\ UNCHANGED <<params, error, output, connection, pipeline_vars, loop_vars,
                 cabinet_stats, pattern_vars, lengths, num_bins, hist,
                 bin_num, out_frequencies,
                 packet_vars, wiring_instructions>>

HistNext ==
  \/ LengthHistogram
  \/ LengthBin
  \/ LengthSort

SpecHist == HistInit /\ [][HistNext]_vars

\* ================================================================ claims
\* A stage mapping holds every board exactly once and no coordinate twice.
Bijective(m) ==
  /\ Len(m) = board_count
  /\ BoardsOf(m) = DOMAIN connection
  /\ Cardinality(BoardsOf(m)) = board_count
  /\ Cardinality(CoordsOf(m)) = board_count

\* C1: every mapping the pipeline has produced (create_torus,
\* hex_to_cartesian, rhombus_to_rect, compress, fold, cabinetise,
\* cabinet_to_physical) holds every board exactly once and no coordinate
\* twice: its boards and its coordinates both number 3 * width * height.
C1_PipelineBijection ==
  /\ torus # <<>> => Bijective(torus)
  /\ cart_torus # <<>> => Bijective(cart_torus)
  /\ rect_torus # <<>> => Bijective(rect_torus)
  /\ comp_torus # <<>> => Bijective(comp_torus)
  /\ folded_torus # <<>> => Bijective(folded_torus)
  /\ cabinet_torus # <<>> => Bijective(cabinet_torus)
  /\ phys_torus # <<>> => Bijective(phys_torus)

C1_Witness ==
  /\ phys_torus # <<>>
  /\ params.width = 2
  /\ params.height = 2
  /\ params.num_folds_x = 2
  /\ params.num_cabinets = 2

\* The mappings of the stages that relabel coordinates.
StageMappings ==
  <<cart_torus, rect_torus, comp_torus, fold_spaced_torus, folded_torus,
    folded_spaced_torus, folded_cabinet_spaced_torus, cabinet_torus,
    phys_torus>>

\* C2: once the torus is built no step of the script changes the board
\* follow_wire(b, d) returns, for any board b and any of the six directions,
\* and every mapping a stage produces still holds that neighbour, so that
\* b2c[board.follow_wire(direction)] finds the same board's coordinate.
C2_AdjacencyInvariance ==
  [][torus # <<>> =>
       /\ \A b \in BoardsOf(torus) : connection'[b] = connection[b]
       /\ \A k \in DOMAIN StageMappings :
            StageMappings'[k] # <<>> =>
              {follow_wire(b, d) : b \in BoardsOf(torus), d \in Directions}
                \subseteq BoardsOf(StageMappings'[k])]_vars

C2_Witness ==
  /\ phys_torus # <<>>
  /\ \E b \in BoardsOf(torus), d \in Directions :
       /\ dict(cabinet_torus)[follow_wire(b, d)][1] # dict(cabinet_torus)[b][1]
       /\ dict(torus)[follow_wire(b, d)] # add_direction(dict(torus)[b], d)

\* C3: while a wiring loop is gathered it holds no board twice, each board is
\* the one the wire of the direction leads to from the board before, and it
\* never grows past the number of boards, so the loop closes on its start
\* within that many wires; the length returned lies within the board count.
C3_WiringLoopTotality ==
  /\ loop # <<>> =>
       /\ Len(loop) <= board_count
       /\ \A i, j \in DOMAIN loop : loop[i] = loop[j] => i = j
       /\ \A i \in DOMAIN loop :
            i > 1 => loop[i] = follow_wire(loop[i - 1], loop_direction)
       /\ cur_board = follow_wire(loop[Len(loop)], loop_direction)
  /\ \A d \in PrincipalDirections : wiring_loop_length[d] \in 0..board_count
  /\ loop_call > 1 => \E d \in PrincipalDirections : wiring_loop_length[d] >= 1

C3_Witness ==
  /\ loop # <<>>
  /\ Len(loop) = board_count
  /\ cur_board = loop[1]
  /\ loop[1] # c2b(torus)[<<0, 0, 0>>]

CountMismatch ==
  board_count #
    params.num_cabinets * params.num_racks_per_cabinet * params.num_slots_per_rack

\* The statements that generate the models, up to cabinetise.
GenerationSteps ==
  {"create_torus", "hex_to_cartesian", "rhombus_to_rect", "compress",
   "space_folds", "fold", "space_folds_folded", "space_folds_cabinet",
   "cabinetise"}

\* C5: when the boards are not exactly as many as the slots the run never
\* gets past model generation: it is generating the models or has failed,
\* nothing has been printed and no analysis result exists.
C5_MismatchIsFatal ==
  CountMismatch =>
    /\ pc \in GenerationSteps \cup {"error"}
    /\ pc = "error" => error \in {"fold", "cabinetise"}
    /\ output = <<>>
    /\ cabinet_torus = <<>>
    /\ phys_torus = <<>>
    /\ \A d \in PrincipalDirections : wiring_loop_length[d] = 0
    /\ cabinet_stats = <<>>
    /\ pattern_iter = 0

C5_Witness ==
  /\ CountMismatch
  /\ pc = "error"
  /\ error = "cabinetise"
  /\ folded_cabinet_spaced_torus # <<>>

\* The wires of a direction by what their two ends share.
WiresOf(direction, same_cabinet, same_rack) ==
  Cardinality(
    {i \in DOMAIN cabinet_torus :
       LET source == cabinet_torus[i][2]
           target == dict(cabinet_torus)[follow_wire(cabinet_torus[i][1], direction)]
       IN  /\ (source[1] = target[1]) = same_cabinet
           /\ (source[2] = target[2]) = same_rack})

\* C6: in each row of the wire table the in-rack count is the number of wires
\* whose ends share cabinet and rack, the between-racks count the number that
\* share the cabinet only, the between-cabinets count the number that change
\* cabinet; the three sum to the board count, and the Total row holds the
\* column sums and 3 times the board count.
C6_WireCabinetStats ==
  cabinet_stats # <<>> =>
    LET rows == cabinet_stats.wire_cabinet_stats
        total == cabinet_stats.total_wire_cabinet_stats
    IN  /\ DOMAIN rows = DOMAIN DIRECTION_COLOURS
        /\ \A k \in DOMAIN rows :
             LET d == DIRECTION_COLOURS[k]
             IN  /\ rows[k][2] = WiresOf(d, TRUE, TRUE)
                 /\ rows[k][3] = WiresOf(d, TRUE, FALSE)
                 /\ rows[k][4] = WiresOf(d, FALSE, TRUE) + WiresOf(d, FALSE, FALSE)
                 /\ rows[k][2] + rows[k][3] + rows[k][4] = board_count
                 /\ rows[k][1] = board_count
        /\ total[1] = 3 * board_count
        /\ total[2] + total[3] + total[4] = 3 * board_count
        /\ \A c \in 1..4 : total[c] = rows[1][c] + rows[2][c] + rows[3][c]

C6_Witness ==
  /\ cabinet_stats # <<>>
  /\ \E k \in DOMAIN cabinet_stats.wire_cabinet_stats :
       /\ cabinet_stats.wire_cabinet_stats[k][2] > 0
       /\ cabinet_stats.wire_cabinet_stats[k][3] > 0
       /\ cabinet_stats.wire_cabinet_stats[k][4] > 0

\* Whether length l lies in a bin: bin_start < l <= bin_end.
Holds(bin, l) == RatLess(bin[1], Rat(l, 1)) /\ RatLeq(Rat(l, 1), bin[2])

LengthsIn(bin) == {i \in DOMAIN lengths : Holds(bin, lengths[i])}

LongestLength == SetMax({lengths[i] : i \in DOMAIN lengths})
ShortestLength == SetMin({lengths[i] : i \in DOMAIN lengths})

HistogramDone == pc = "done" /\ freq_stats # <<>>

\* C7: for a non-empty list of lengths and num_bins >= 1 the function reports
\* num_bins bins in ascending order, the first starting at 0; every length
\* lies in exactly one bin and each bin counts the lengths in it, so the
\* counts sum to the number of wires.  For the lengths [1,1,1,5,5,9] in 5 bins
\* the bins that count anything are those holding 1, 5 and 9, and they count 6.
C7_HistogramBins ==
  HistogramDone =>
    /\ Len(freq_stats) = num_bins
    /\ \A k \in 1..(num_bins - 1) :
         RatLeq(freq_stats[k][1], freq_stats[k + 1][1])
    /\ RatEq(freq_stats[1][1], Rat(0, 1))
    /\ \A i \in DOMAIN lengths :
         Cardinality({k \in DOMAIN freq_stats : Holds(freq_stats[k], lengths[i])}) = 1
    /\ \A k \in DOMAIN freq_stats :
         freq_stats[k][3] = Cardinality(LengthsIn(freq_stats[k]))
    /\ SumSeq([k \in DOMAIN freq_stats |-> freq_stats[k][3]]) = Len(lengths)
    /\ (lengths = ScenarioLengths /\ num_bins = default_num_bins) =>
         /\ \A k \in DOMAIN freq_stats :
              freq_stats[k][3] # 0 <=>
                \E l \in {1, 5, 9} : Holds(freq_stats[k], l)
         /\ SumSeq([k \in DOMAIN freq_stats |-> freq_stats[k][3]]) = 6

\* The lengths 1.0 and 2.0 in 3 bins: the last bin ends below 2.0 and the
\* longer wire is counted nowhere.
C7_Witness ==
  /\ HistogramDone
  /\ lengths = <<1, 2>>
  /\ num_bins = 3
  /\ RatLess(freq_stats[num_bins][2], Rat(2, 1))
  /\ SumSeq([k \in DOMAIN freq_stats |-> freq_stats[k][3]]) = 1

\* The width every bin would have: (max_length - min_length) / num_bins.
EqualWidth == Rat(LongestLength - ShortestLength, num_bins)

\* What rounding may add to or take from a bin boundary: the longest length
\* times 2^(1 - FloatBits).
Rounding == Rat(LongestLength, pow2(FloatBits - 1))

Near(a, b) == RatLeq(RatAbs(RatSub(a, b)), Rounding)

\* C8 as claimed: every bin, the first included, is (max - min) / num_bins
\* wide (up to rounding), the first starts at the shortest length and the
\* last ends at the longest (up to rounding).
C8_Original_EqualWidthFromMin ==
  HistogramDone =>
    /\ \A k \in DOMAIN freq_stats :
         Near(RatSub(freq_stats[k][2], freq_stats[k][1]), EqualWidth)
    /\ RatEq(freq_stats[1][1], Rat(ShortestLength, 1))
    /\ Near(freq_stats[num_bins][2], Rat(LongestLength, 1))

\* C8 (amended): every bin after the first is (max - min) / num_bins wide
\* up to rounding; the first bin starts at 0, not at the shortest length, and
\* ends at the shortest length plus that width; the last bin ends at the
\* longest length up to rounding.
C8_EqualWidthAfterFirst ==
  HistogramDone =>
    /\ \A k \in DOMAIN freq_stats :
         k > 1 => Near(RatSub(freq_stats[k][2], freq_stats[k][1]), EqualWidth)
    /\ RatEq(freq_stats[1][1], Rat(0, 1))
    /\ Near(freq_stats[1][2], RatAdd(Rat(ShortestLength, 1), EqualWidth))
    /\ Near(freq_stats[num_bins][2], Rat(LongestLength, 1))

C8_Witness ==
  /\ HistogramDone
  /\ num_bins >= 2
  /\ ShortestLength < LongestLength
  /\ ~Near(RatSub(freq_stats[1][2], freq_stats[1][1]), EqualWidth)

\* C9: when all the lengths are equal (the bin width is 0) and num_bins >= 1
\* the function raises nothing, and exactly one bin counts anything: it
\* counts every wire.
C9_EqualLengths ==
  (ShortestLength = LongestLength /\ num_bins >= 1) =>
    /\ error = "none"
    /\ HistogramDone =>
         /\ Cardinality({k \in DOMAIN freq_stats : freq_stats[k][3] # 0}) = 1
         /\ \E k \in DOMAIN freq_stats : freq_stats[k][3] = Len(lengths)

C9_Witness ==
  /\ HistogramDone
  /\ ShortestLength = LongestLength
  /\ Len(lengths) >= 2
  /\ num_bins >= 2

\* The distinct patterns among the groups of the last pass.
Patterns == {grouped_relative_wires[g] : g \in DOMAIN grouped_relative_wires}

\* C10: after a pass of the pattern loop two groups have the same pattern id
\* exactly when their sets of (elem_key, relative wire) pairs are equal, and
\* the ids are 0..n-1 for the n distinct sets; when every board of the pass
\* has the same relative wire there is 1 pattern.
C10_PatternIds ==
  pattern_iter > 0 =>
    /\ DOMAIN pattern2id = Patterns
    /\ \A g1, g2 \in DOMAIN grouped_relative_wires :
         (pattern2id[grouped_relative_wires[g1]] =
            pattern2id[grouped_relative_wires[g2]])
           <=> (grouped_relative_wires[g1] = grouped_relative_wires[g2])
    /\ {pattern2id[p] : p \in DOMAIN pattern2id} = 0..(Cardinality(Patterns) - 1)
    /\ Cardinality({e[2] : e \in UNION Patterns}) = 1 =>
         Cardinality({pattern2id[p] : p \in DOMAIN pattern2id}) = 1

C10_Witness ==
  /\ pattern_iter > 0
  /\ \E g1, g2, g3 \in DOMAIN grouped_relative_wires :
       /\ g1 # g2
       /\ grouped_relative_wires[g1] = grouped_relative_wires[g2]
       /\ grouped_relative_wires[g1] # grouped_relative_wires[g3]
       /\ pattern2id[grouped_relative_wires[g1]] # pattern2id[grouped_relative_wires[g3]]

\* The places (table, row) of the written instructions that hold a wire.
PlacesOf(wire) ==
  {<<t, j>> \in UNION {{t} \X DOMAIN wiring_instructions.out[t][3] :
                         t \in DOMAIN wiring_instructions.out} :
     wiring_instructions.out[t][3][j] = wire}

\* The scope and heading a wire belongs under.
ScopeOf(wire) ==
  IF wire[1][1] = wire[2][1] /\ wire[1][2] = wire[2][2]
  THEN <<"Wires Within Racks", <<wire[1][1], wire[1][2]>>>>
  ELSE IF wire[1][1] = wire[2][1]
  THEN <<"Wires Within Cabinets", <<wire[1][1]>>>>
  ELSE <<"Wires Between Cabinets", <<>>>>

\* C11: generate_wiring_instructions builds one record for each board and
\* principal direction, 3 times the board count in all, holding the two ends
\* of that wire; every record is written exactly once, in the table of its
\* scope (its rack when both ends share cabinet and rack, its cabinet when
\* they share the cabinet only, the table between cabinets otherwise), and
\* the rows of every table ascend.
C11_WiringInstructions ==
  wiring_instructions # <<>> =>
    LET wires == wiring_instructions.wires
        out == wiring_instructions.out
        b2c == dict(cabinet_torus)
    IN  /\ Len(wires) = 3 * board_count
        /\ \A b \in DOMAIN cabinet_torus, k \in DOMAIN DIRECTION_COLOURS :
             LET d == DIRECTION_COLOURS[k]
                 wire == wires[(3 * (b - 1)) + k]
             IN  {wire[1], wire[2]} =
                   {cabinet_torus[b][2] \o <<socket_names[d]>>,
                    b2c[follow_wire(cabinet_torus[b][1], d)]
                      \o <<socket_names[opposite(d)]>>}
        /\ \A i \in DOMAIN wires :
             /\ Cardinality(PlacesOf(wires[i])) = 1
             /\ \A place \in PlacesOf(wires[i]) :
                  <<out[place[1]][1], out[place[1]][2]>> = ScopeOf(wires[i])
        /\ SumSeq([t \in DOMAIN out |-> Len(out[t][3])]) = 3 * board_count
        /\ \A t \in DOMAIN out :
             \A j \in 1..(Len(out[t][3]) - 1) :
               wire_less(out[t][3][j], out[t][3][j + 1])

C11_Witness ==
  /\ wiring_instructions # <<>>
  /\ \A scope \in {"Wires Within Racks", "Wires Within Cabinets",
                   "Wires Between Cabinets"} :
       \E t \in DOMAIN wiring_instructions.out :
         /\ wiring_instructions.out[t][1] = scope
         /\ Len(wiring_instructions.out[t][3]) >= 2

C13_SingleRack ==
  (cabinet_stats # <<>>
     /\ params.num_cabinets = 1 /\ params.num_racks_per_cabinet = 1) =>
    /\ \A k \in DOMAIN cabinet_stats.wire_cabinet_stats :
         cabinet_stats.wire_cabinet_stats[k] =
           <<board_count, board_count, 0, 0>>
    /\ cabinet_stats.total_wire_cabinet_stats =
         <<3 * board_count, 3 * board_count, 0, 0>>

C13_Witness ==
  /\ cabinet_stats # <<>>
  /\ params.width = 2
  /\ params.height = 2
  /\ params.num_cabinets = 1
  /\ params.num_racks_per_cabinet = 1
  /\ params.num_slots_per_rack = 12
  /\ CoordsOf(cabinet_torus) = {<<0, 0, s>> : s \in 0..11}

\* The filter number and direction of the pass of the wiring pattern loop
\* made last, and the relative wires of that direction its filter lets pass.
LastFilter == ((pattern_iter - 1) \div Len(DIRECTION_COLOURS)) + 1

LastDirection ==
  DIRECTION_COLOURS[((pattern_iter - 1) % Len(DIRECTION_COLOURS)) + 1]

LastPassing ==
  LET rel == get_relative_wires(cabinet_torus, LastDirection)
  IN  {i \in DOMAIN rel : wire_filter(LastFilter, rel[i][2])}

\* C14: a pass of the wiring pattern loop whose filter lets no wire of its
\* direction pass completes without raising: grouped_relative_wires and
\* pattern2id are empty, there is no distinct pattern, and the colouring
\* diagram is built, from a palette of one colour, with no board in it.
C14_EmptyFilterResult ==
  (pattern_iter > 0 /\ LastPassing = {}) =>
    /\ error = "none"
    /\ DOMAIN grouped_relative_wires = {}
    /\ DOMAIN pattern2id = {}
    /\ Cardinality(Patterns) = 0
    /\ num_colours = 1
    /\ Len(colours) = 1
    /\ DOMAIN colouring = {}

C14_Witness ==
  /\ pattern_iter > 0
  /\ LastPassing = {}
  /\ LastFilter = 2
  /\ DOMAIN colouring = {}
  /\ params.width = 2

\* The physical wire leaving board b by direction d, as the set of its two
\* ends, and the record generate_wiring_instructions is to hold for it.
PhysicalWire(b, d) == {<<b, d>>, <<follow_wire(b, d), opposite(d)>>}

RecordEnds(b, d) ==
  {dict(cabinet_torus)[b] \o <<socket_names[d]>>,
   dict(cabinet_torus)[follow_wire(b, d)] \o <<socket_names[opposite(d)]>>}

\* C16: opposite is an involution pairing North with South, North-East with
\* South-West and East with West; following a wire and then the opposite
\* direction leads back to the board; every wiring record names the socket of
\* its direction at its board and the socket of the opposite direction at the
\* neighbour; the wires of the three principal directions are pairwise
\* distinct and are all the wires there are.
C16_WiresSymmetric ==
  /\ \A d \in Directions : opposite(opposite(d)) = d /\ opposite(d) # d
  /\ opposite(NORTH) = SOUTH
  /\ opposite(NORTH_EAST) = SOUTH_WEST
  /\ opposite(EAST) = WEST
  /\ \A b \in DOMAIN connection, d \in Directions :
       follow_wire(follow_wire(b, d), opposite(d)) = b
  /\ Cardinality({PhysicalWire(b, d) :
                    b \in DOMAIN connection, d \in PrincipalDirections})
       = 3 * Cardinality(DOMAIN connection)
  /\ {PhysicalWire(b, d) : b \in DOMAIN connection, d \in PrincipalDirections}
       = {PhysicalWire(b, d) : b \in DOMAIN connection, d \in Directions}
  /\ wiring_instructions # <<>> =>
       LET wires == wiring_instructions.wires
           ends == {{wires[i][1], wires[i][2]} : i \in DOMAIN wires}
       IN  /\ \A b \in DOMAIN cabinet_torus, k \in DOMAIN DIRECTION_COLOURS :
                {wires[(3 * (b - 1)) + k][1], wires[(3 * (b - 1)) + k][2]} =
                  RecordEnds(cabinet_torus[b][1], DIRECTION_COLOURS[k])
           /\ Cardinality(ends) = Len(wires)
           /\ ends = {RecordEnds(b, d) :
                        b \in BoardsOf(cabinet_torus), d \in Directions}

C16_Witness ==
  /\ wiring_instructions # <<>>
  /\ params.width = 2
  /\ \E b \in DOMAIN connection :
       /\ follow_wire(b, NORTH) # follow_wire(b, EAST)
       /\ follow_wire(follow_wire(b, SOUTH_WEST), NORTH_EAST) = b

\* The steps that call space_folds.
SpaceFoldsSteps == {"space_folds", "space_folds_folded", "space_folds_cabinet"}

\* The mappings the functional stages produce and consume.
FunctionalMappings ==
  <<torus, cart_torus, rect_torus, comp_torus, folded_torus, cabinet_torus,
    phys_torus>>

\* C17: a call of space_folds leaves every mapping of the functional stages
\* as it was; folded_torus is fold of the compress output, cabinet_torus is
\* cabinetise of folded_torus and phys_torus is cabinet_to_physical of
\* cabinet_torus, so that cabinet_torus and phys_torus are determined by
\* rect_torus and the parameters alone, whatever space_folds returned.
C17_SpaceFoldsUnused ==
  /\ [][(pc \in SpaceFoldsSteps) => (FunctionalMappings' = FunctionalMappings)]_vars
  /\ [](/\ comp_torus # <<>> =>
             comp_torus = compress_call(rect_torus, params.compress_rows)
        /\ folded_torus # <<>> =>
             folded_torus =
               fold(comp_torus, <<params.num_folds_x, params.num_folds_y>>).value
        /\ cabinet_torus # <<>> =>
             cabinet_torus = cabinetise_call(folded_torus, params).value
        /\ phys_torus # <<>> =>
             phys_torus = cabinet_to_physical(cabinet_torus, cabinet_system))

C17_Witness ==
  /\ phys_torus # <<>>
  /\ fold_spaced_torus # comp_torus
  /\ folded_spaced_torus # folded_torus
  /\ folded_cabinet_spaced_torus # folded_torus

\* C18: calculate_wire_cabinet_stats never reaches assert(False): once
\* cabinet_torus exists, the North, East and South-West wire of every board
\* ends at another board, whose cabinet, rack or slot differs from the
\* board's own, so one of the three counters is chosen.
C18_AssertUnreachable ==
  /\ error # "AssertionError"
  /\ cabinet_torus # <<>> =>
       \A i \in DOMAIN cabinet_torus, d \in PrincipalDirections :
         LET board == cabinet_torus[i][1]
             source == dict(cabinet_torus)[board]
             target == dict(cabinet_torus)[follow_wire(board, d)]
         IN  /\ follow_wire(board, d) # board
             /\ CoordAbs(CoordSub(target, source)) # <<0, 0, 0>>
             /\ wire_counter(cabinet_torus, board, d) \in 1..3

C18_Witness ==
  /\ cabinet_stats # <<>>
  /\ params.width = 1
  /\ params.height = 1
  /\ Len(cabinet_torus) = 3
  /\ error = "none"

\* The number of relative wires of a direction that filter k lets pass, and
\* the number of wiring instructions written under a scope.
PassingCount(k, direction) ==
  LET rel == get_relative_wires(cabinet_torus, direction)
  IN  Cardinality({i \in DOMAIN rel : wire_filter(k, rel[i][2])})

ScopeCount(scope) ==
  SumSeq([t \in DOMAIN wiring_instructions.out |->
            IF wiring_instructions.out[t][1] = scope
            THEN Len(wiring_instructions.out[t][3]) ELSE 0])

\* C19: every relative wire of a principal direction passes exactly one of
\* the filters Change Slot, Change Rack and Change Cabinet; the numbers that
\* pass them are the direction's in-rack, between-rack and between-cabinet
\* counts of the wire table; a pass of the pattern loop groups as many boards
\* as wires pass its filter; and the instructions written within racks,
\* within cabinets and between cabinets number the Total row's counts.
C19_FiltersPartition ==
  /\ cabinet_stats # <<>> =>
       \A n \in DOMAIN DIRECTION_COLOURS :
         LET rel == get_relative_wires(cabinet_torus, DIRECTION_COLOURS[n])
             row == cabinet_stats.wire_cabinet_stats[n]
         IN  /\ \A i \in DOMAIN rel :
                  Cardinality({k \in 1..3 : wire_filter(k, rel[i][2])}) = 1
             /\ \A k \in 1..3 :
                  PassingCount(k, DIRECTION_COLOURS[n]) = row[k + 1]
  /\ (cabinet_stats # <<>> /\ pattern_iter > 0 /\ error = "none") =>
       Cardinality(DOMAIN grouped_relative_wires) =
         cabinet_stats.wire_cabinet_stats[
           ((pattern_iter - 1) % Len(DIRECTION_COLOURS)) + 1][LastFilter + 1]
  /\ wiring_instructions # <<>> =>
       /\ ScopeCount("Wires Within Racks") =
            cabinet_stats.total_wire_cabinet_stats[2]
       /\ ScopeCount("Wires Within Cabinets") =
            cabinet_stats.total_wire_cabinet_stats[3]
       /\ ScopeCount("Wires Between Cabinets") =
            cabinet_stats.total_wire_cabinet_stats[4]

C19_Witness ==
  /\ wiring_instructions # <<>>
  /\ pattern_iter = 3 * Len(DIRECTION_COLOURS)
  /\ \A k \in 2..4 : cabinet_stats.total_wire_cabinet_stats[k] > 0
  /\ ScopeCount("Wires Between Cabinets") > 0
  /\ \E i \in DOMAIN cabinet_torus :
       LET rel == get_relative_wires(cabinet_torus, NORTH)
       IN  rel[i][2][1] # 0 /\ rel[i][2][2] # 0

\* C20: for every num_colours from 1 up the palette has num_colours entries,
\* no entry indexes the spectrum beyond its last pair (unpacking never
\* fails), every mix percentage lies in 1..100, different colour indexes have
\* different colour strings, and so two boards have the same colour exactly
\* when they have the same colour index.
C20_PaletteDistinct ==
  /\ error # "ValueError"
  /\ colours # <<>> =>
       /\ Len(colours) = num_colours
       /\ \A i \in 0..(num_colours - 1) :
            /\ i \div segment_size(num_colours) <= 2
            /\ colours[i + 1][2] \in 1..100
       /\ Cardinality({colours[i] : i \in DOMAIN colours}) = num_colours
  /\ \A b1, b2 \in DOMAIN colouring :
       (colouring[b1] = colouring[b2]) <=> (cabinet_colours[b1] = cabinet_colours[b2])

\* A palette of 301 colours whose first two entries are the same string, given
\* to two boards of colour indexes 0 and 1.
C20_Witness ==
  /\ num_colours = 301
  /\ colours # <<>>
  /\ colours[1] = colours[2]
  /\ colouring # <<>>
  /\ cabinet_colours = <<0, 1>>
  /\ colouring[1] = colouring[2]
=============================================================================
